---------------------------- MODULE Spec2Model ----------------------------
(***************************************************************************)
(* Model of the Uniswap-V2 LP / Hyperliquid short delta-hedge strategy     *)
(* (src/univ2_hl_hedge.py) driven by the backtest run loop                 *)
(* (src/univ2_hl_backtest.py).                                             *)
(*                                                                         *)
(* Numbers are exact rationals [n, d] in lowest terms with d > 0; the      *)
(* Python floats of the source are modelled by their exact real values.    *)
(* A price is a tagged value: None, NaN or a number.                       *)
(***************************************************************************)
EXTENDS Integers, Sequences, FiniteSets, TLC

(***************************************************************************)
(* Exact rational arithmetic                                               *)
(***************************************************************************)
Abs(i) == IF i < 0 THEN -i ELSE i

RECURSIVE GCD(_, _)
GCD(a, b) == IF b = 0 THEN a ELSE GCD(b, a % b)

R(n, d) ==
    LET g == GCD(Abs(n), Abs(d))
        s == IF d < 0 THEN -1 ELSE 1
    IN  [n |-> s * (n \div g), d |-> s * (d \div g)]

Zero == [n |-> 0, d |-> 1]

RNeg(x) == [n |-> -x.n, d |-> x.d]

RAbs(x) == [n |-> Abs(x.n), d |-> x.d]

RAdd(x, y) ==
    LET g == GCD(x.d, y.d)
    IN  R(x.n * (y.d \div g) + y.n * (x.d \div g), (x.d \div g) * y.d)

RSub(x, y) == RAdd(x, RNeg(y))

RMul(x, y) ==
    LET g1 == GCD(Abs(x.n), y.d)
        g2 == GCD(Abs(y.n), x.d)
    IN  IF x.n = 0 \/ y.n = 0 THEN Zero
        ELSE [n |-> (x.n \div g1) * (y.n \div g2),
              d |-> (x.d \div g2) * (y.d \div g1)]

\* x / y for y # 0 (the source divides only by positive quantities)
RDiv(x, y) ==
    RMul(x, IF y.n < 0 THEN [n |-> -y.d, d |-> -y.n] ELSE [n |-> y.d, d |-> y.n])

\* a/b < c/d for a, c >= 0 and b, d > 0, by comparing integer parts and then
\* the reciprocals of the fractional parts (no cross product is formed)
RECURSIVE PosLt(_, _, _, _)
PosLt(a, b, c, d) ==
    LET q1 == a \div b
        q2 == c \div d
        r1 == a % b
        r2 == c % d
    IN  IF q1 # q2 THEN q1 < q2
        ELSE IF r2 = 0 THEN FALSE
        ELSE IF r1 = 0 THEN TRUE
        ELSE PosLt(d, r2, b, r1)

RLt(x, y) ==
    IF x.n < 0 /\ y.n >= 0 THEN TRUE
    ELSE IF x.n >= 0 /\ y.n < 0 THEN FALSE
    ELSE IF x.n < 0 THEN PosLt(-y.n, y.d, -x.n, x.d)
    ELSE PosLt(x.n, x.d, y.n, y.d)

RLe(x, y) == ~RLt(y, x)

RGt(x, y) == RLt(y, x)

(***************************************************************************)
(* Prices: None, NaN or a number                                           *)
(***************************************************************************)
NoneP == [kind |-> "none", val |-> Zero]

NaNP == [kind |-> "nan", val |-> Zero]

Num(r) == [kind |-> "num", val |-> r]

(***************************************************************************)
(* Bounds of the model and the input sets drawn from                       *)
(***************************************************************************)
MaxSnapshots == 3

MaxPairSnapshots == 4

Notionals == {R(1000000, 1), R(3000, 1)}

Leverages == {R(1, 1), R(2, 1)}

Thresholds == {R(1, 10), R(1, 4)}

ParamSets ==
    [INITIAL_NOTIONAL : Notionals, HL_LEVERAGE : Leverages,
     REBALANCE_THRESHOLD_PCT : Thresholds]

Prices == {NoneP, NaNP, Num(R(-1, 1)), Num(Zero), Num(R(2000, 1)), Num(R(1600, 1))}

LPAmounts == {Zero, R(1, 1000000000), R(1, 1000000), R(50, 1), R(150, 1), R(200, 1)}

Balances == {Zero, R(100000, 1)}

\* the inputs of a single call of predict by a booted engine
CallPrices == {Num(R(2000, 1)), Num(R(1, 200))}

CallAmounts == {Zero, R(1, 1000000000), R(1, 1000000), R(50, 1), R(200, 1)}

CallSizes == {R(-200, 1), R(-50, 1), R(-1, 1000000), Zero, R(50, 1)}

CallBalances == {R(-100, 1), Zero, R(100000, 1)}

CallThresholds == {R(-1, 10), Zero, R(1, 10), R(1, 4), R(1, 1), R(3, 2)}

\* the inputs of the side-by-side run of two engines
PairThresholds == {R(1, 10), R(1, 5), R(3, 10)}

PairPrices == {Num(R(2000, 1)), Num(R(1600, 1))}

PairAmounts == {R(184, 1), R(215, 1), R(240, 1)}

(***************************************************************************)
(* Program constants (literals of predict)                                 *)
(***************************************************************************)
LP_FLOOR == R(1, 1000000000)

MIN_NOTIONAL == R(1, 100)


(***************************************************************************)
(* predict, as a function of the engine state and the entity states        *)
(***************************************************************************)
Instr(entity, action, arg, amount) ==
    [entity |-> entity, action |-> action, arg |-> arg, amount |-> amount]

\* mutant: both states must be missing for the call to be skipped
StatesUninitialized_Both(lp_g, lp_i) == lp_g.is_none /\ lp_i.is_none

\* lp_entity.global_state is None or lp_entity.internal_state is None
StatesUninitialized(lp_g, lp_i) == lp_g.is_none \/ lp_i.is_none

\* mutant: the NaN test is left out
InvalidPrice_NoNaN(p) ==
    \/ p.kind = "none"
    \/ (p.kind = "num" /\ RLe(p.val, Zero))

\* price is None or price <= 0 or math.isnan(price)
InvalidPrice(p) ==
    \/ p.kind = "none"
    \/ (p.kind = "num" /\ RLe(p.val, Zero))
    \/ p.kind = "nan"

\* mutant: the boot flag is tested the wrong way round
AwaitingBoot_Inverted(booted) == booted

\* mutant: the boot flag is not consulted
AwaitingBoot_Always(booted) == TRUE

\* not self._did_boot
AwaitingBoot(booted) == ~booted

\* mutant: 1 / 2 * leverage for 1 / (2 * leverage)
LpDepositNotional_Prec(N, L) ==
    RDiv(N, RAdd(R(1, 1), RMul(RDiv(R(1, 1), R(2, 1)), L)))

\* initial_notional / (1 + 1 / (2 * leverage))
LpDepositNotional(N, L) ==
    RDiv(N, RAdd(R(1, 1), RDiv(R(1, 1), RMul(R(2, 1), L))))

\* initial_lp_deposit_notional / 2
EthValueInLp(X) == RDiv(X, R(2, 1))

\* initial_eth_value_in_lp / leverage
MarginForInitialShort(V, L) == RDiv(V, L)

\* initial_eth_value_in_lp / current_eth_price
EthAmountToShort(V, p) == RDiv(V, p)

\* mutant: the short is opened before its margin is deposited
BootActions_Swapped(prm, p) ==
    LET X == LpDepositNotional(prm.INITIAL_NOTIONAL, prm.HL_LEVERAGE)
        V == EthValueInLp(X)
        M == MarginForInitialShort(V, prm.HL_LEVERAGE)
        S == EthAmountToShort(V, p)
    IN  << Instr("LP", "deposit", "amount_in_notional", X),
           Instr("LP", "open_position", "amount_in_notional", X),
           Instr("HEDGE", "open_position", "amount_in_product", RNeg(S)),
           Instr("HEDGE", "deposit", "amount_in_notional", M) >>

BootActions(prm, p) ==
    LET X == LpDepositNotional(prm.INITIAL_NOTIONAL, prm.HL_LEVERAGE)
        V == EthValueInLp(X)
        M == MarginForInitialShort(V, prm.HL_LEVERAGE)
        S == EthAmountToShort(V, p)
    IN  << Instr("LP", "deposit", "amount_in_notional", X),
           Instr("LP", "open_position", "amount_in_notional", X),
           Instr("HEDGE", "deposit", "amount_in_notional", M),
           Instr("HEDGE", "open_position", "amount_in_product", RNeg(S)) >>

\* lp_eth_amount <= 1e-9
LpTooSmall(a) == RLe(a, LP_FLOOR)

\* mutant: the signed size is used where its magnitude is meant
DiffInEthAmount_Signed(a, size) == RSub(a, size)

\* lp_eth_amount - abs(hedge_entity.size)
DiffInEthAmount(a, size) == RSub(a, RAbs(size))

\* mutant: the comparison with the threshold is the wrong way round
Triggered_Inverted(a, size, T) == RLt(RDiv(RAbs(DiffInEthAmount(a, size)), a), T)

\* abs(diff_in_eth_amount) / lp_eth_amount > REBALANCE_THRESHOLD_PCT
Triggered(a, size, T) == RGt(RDiv(RAbs(DiffInEthAmount(a, size)), a), T)

\* mutant: the magnitude of the short is subtracted instead of its signed size
AmountToAdjust_Abs(a, size) == RSub(RNeg(a), RAbs(size))

\* desired_total_short_product - hedge_entity.size, the desired total being -lp_eth_amount
AmountToAdjust(a, size) == RSub(RNeg(a), size)

\* mutant: the minimal-notional test is left out
IsDust_Never(adj, p) == FALSE

\* abs(amount_to_adjust_product * current_eth_price) < 0.01
IsDust(adj, p) == RLt(RAbs(RMul(adj, p)), MIN_NOTIONAL)

\* mutant: the leverage is left out of the margin
MarginNeeded_NoLeverage(adj, p, L) == RMul(RAbs(adj), p)

\* abs(amount_to_adjust_product) * current_eth_price / HL_LEVERAGE
MarginNeeded(adj, p, L) == RDiv(RMul(RAbs(adj), p), L)

\* mutant: the comparison of the margins is the wrong way round
InsufficientMargin_Inverted(available, needed) == RLt(needed, available)

\* available_margin < margin_needed_for_adjustment
InsufficientMargin(available, needed) == RLt(available, needed)

Out(acts, eng, branch) ==
    [actions |-> acts, raised |-> FALSE, needed |-> Zero, available |-> Zero,
     did_boot |-> eng.did_boot, price_on_boot |-> eng.price_on_boot,
     branch |-> branch, sentinel |-> FALSE]

Raise(eng, needed, available) ==
    [actions |-> << >>, raised |-> TRUE, needed |-> needed, available |-> available,
     did_boot |-> eng.did_boot, price_on_boot |-> eng.price_on_boot,
     branch |-> "raise", sentinel |-> FALSE]

\* mutant: the margin is checked for a decrease of the short as well
Rebalance_MarginBoth(eng, prm, lp_g, lp_i, hdg) ==
    LET p   == lp_g.price
        a   == lp_i.token1_amount
        adj == AmountToAdjust(a, hdg.size)
        need == MarginNeeded(adj, p.val, prm.HL_LEVERAGE)
        open == << Instr("HEDGE", "open_position", "amount_in_product", adj) >>
    IN  IF InvalidPrice(p) THEN Out(<< >>, eng, "price_skip")
        ELSE IF LpTooSmall(a) THEN Out(<< >>, eng, "tiny")
        ELSE IF ~Triggered(a, hdg.size, prm.REBALANCE_THRESHOLD_PCT)
             THEN Out(<< >>, eng, "no_trigger")
        ELSE IF IsDust(adj, p.val) THEN Out(<< >>, eng, "dust")
        ELSE IF adj = Zero THEN Out(<< >>, eng, "zero")
        ELSE IF InsufficientMargin(hdg.balance, need)
             THEN Raise(eng, need, hdg.balance)
        ELSE Out(open, eng, IF RLt(adj, Zero) THEN "increase" ELSE "decrease")

\* mutant: the minimal-notional test comes after the margin check
Rebalance_DustLate(eng, prm, lp_g, lp_i, hdg) ==
    LET p   == lp_g.price
        a   == lp_i.token1_amount
        adj == AmountToAdjust(a, hdg.size)
        need == MarginNeeded(adj, p.val, prm.HL_LEVERAGE)
        open == << Instr("HEDGE", "open_position", "amount_in_product", adj) >>
    IN  IF InvalidPrice(p) THEN Out(<< >>, eng, "price_skip")
        ELSE IF LpTooSmall(a) THEN Out(<< >>, eng, "tiny")
        ELSE IF ~Triggered(a, hdg.size, prm.REBALANCE_THRESHOLD_PCT)
             THEN Out(<< >>, eng, "no_trigger")
        ELSE IF RLt(adj, Zero) /\ InsufficientMargin(hdg.balance, need)
             THEN Raise(eng, need, hdg.balance)
        ELSE IF IsDust(adj, p.val) THEN Out(<< >>, eng, "dust")
        ELSE IF adj = Zero THEN Out(<< >>, eng, "zero")
        ELSE Out(open, eng, IF RLt(adj, Zero) THEN "increase" ELSE "decrease")

\* mutant: the ACTIVE state does not check the price
Rebalance_NoPriceCheck(eng, prm, lp_g, lp_i, hdg) ==
    LET p   == lp_g.price
        a   == lp_i.token1_amount
        adj == AmountToAdjust(a, hdg.size)
        need == MarginNeeded(adj, p.val, prm.HL_LEVERAGE)
        open == << Instr("HEDGE", "open_position", "amount_in_product", adj) >>
    IN  IF LpTooSmall(a) THEN Out(<< >>, eng, "tiny")
        ELSE IF ~Triggered(a, hdg.size, prm.REBALANCE_THRESHOLD_PCT)
             THEN Out(<< >>, eng, "no_trigger")
        ELSE IF IsDust(adj, p.val) THEN Out(<< >>, eng, "dust")
        ELSE IF RLt(adj, Zero)
             THEN IF InsufficientMargin(hdg.balance, need)
                  THEN Raise(eng, need, hdg.balance)
                  ELSE Out(open, eng, "increase")
        ELSE IF RGt(adj, Zero) THEN Out(open, eng, "decrease")
        ELSE Out(<< >>, eng, "zero")

\* the rebalance logic of predict, from the price check on
Rebalance(eng, prm, lp_g, lp_i, hdg) ==
    LET p   == lp_g.price
        a   == lp_i.token1_amount
        adj == AmountToAdjust(a, hdg.size)
        need == MarginNeeded(adj, p.val, prm.HL_LEVERAGE)
        open == << Instr("HEDGE", "open_position", "amount_in_product", adj) >>
    IN  IF InvalidPrice(p) THEN Out(<< >>, eng, "price_skip")
        ELSE IF LpTooSmall(a) THEN Out(<< >>, eng, "tiny")
        ELSE IF ~Triggered(a, hdg.size, prm.REBALANCE_THRESHOLD_PCT)
             THEN Out(<< >>, eng, "no_trigger")
        ELSE IF IsDust(adj, p.val) THEN Out(<< >>, eng, "dust")
        ELSE IF RLt(adj, Zero)
             THEN IF InsufficientMargin(hdg.balance, need)
                  THEN Raise(eng, need, hdg.balance)
                  ELSE Out(open, eng, "increase")
        ELSE IF RGt(adj, Zero) THEN Out(open, eng, "decrease")
        ELSE Out(<< >>, eng, "zero")

\* mutant: the boot flag is never set
Boot_NoFlag(eng, prm, lp_g) ==
    IF InvalidPrice(lp_g.price) THEN Out(<< >>, eng, "boot_skip")
    ELSE [actions |-> BootActions(prm, lp_g.price.val), raised |-> FALSE,
          needed |-> Zero, available |-> Zero,
          did_boot |-> eng.did_boot, price_on_boot |-> lp_g.price, branch |-> "boot",
          sentinel |-> FALSE]

\* mutant: the price is recorded before it is checked
Boot_RecordsInvalid(eng, prm, lp_g) ==
    IF InvalidPrice(lp_g.price)
    THEN [Out(<< >>, eng, "boot_skip") EXCEPT !.price_on_boot = lp_g.price]
    ELSE [actions |-> BootActions(prm, lp_g.price.val), raised |-> FALSE,
          needed |-> Zero, available |-> Zero,
          did_boot |-> TRUE, price_on_boot |-> lp_g.price, branch |-> "boot",
          sentinel |-> FALSE]

\* the boot branch of predict
Boot(eng, prm, lp_g) ==
    IF InvalidPrice(lp_g.price) THEN Out(<< >>, eng, "boot_skip")
    ELSE [actions |-> BootActions(prm, lp_g.price.val), raised |-> FALSE,
          needed |-> Zero, available |-> Zero,
          did_boot |-> TRUE, price_on_boot |-> lp_g.price, branch |-> "boot",
          sentinel |-> FALSE]

\* the liquidation sentinel: logs only (the raise is commented out)
LiquidationSentinel(lp_i, hdg) ==
    hdg.balance = Zero /\ RGt(lp_i.token1_amount, Zero)

\* mutant: the commented-out raise of the sentinel is in force
AfterSentinel_Raises(r, fired) ==
    IF fired
    THEN [r EXCEPT !.actions = << >>, !.raised = TRUE, !.branch = "sentinel_raise",
                   !.sentinel = TRUE]
    ELSE r

\* what the sentinel does to the rest of the call: it logs, and the call goes on
AfterSentinel(r, fired) == [r EXCEPT !.sentinel = fired]

predict(eng, prm, lp_g, lp_i, hdg) ==
    IF StatesUninitialized(lp_g, lp_i) THEN Out(<< >>, eng, "uninit")
    ELSE IF AwaitingBoot(eng.did_boot) THEN Boot(eng, prm, lp_g)
    ELSE AfterSentinel(Rebalance(eng, prm, lp_g, lp_i, hdg),
                       LiquidationSentinel(lp_i, hdg))

(***************************************************************************)
(* State                                                                   *)
(***************************************************************************)
\* ---------------------------------------------------------------------------
\* build_observations (univ2_hl_backtest.py): the three loaders' frames, the
\* cast of the liquidity column, the two inner joins, sort_index and dropna.

MaxSeriesLen == 2

Timestamps == {1, 2}

SeqsUpTo(S, n) == UNION {[1..k -> S] : k \in 0..n}

\* a row of the price or funding frame: its index and whether its value is set
ValueRows == [ts : Timestamps, ok : BOOLEAN]

\* a row of the pool frame: ok says tvl, volume and fees are set, liquidity_ok
\* says the liquidity is set
PoolRows == [ts : Timestamps, ok : BOOLEAN, liquidity_ok : BOOLEAN]

\* the frames the loaders can return: any order, repeated indexes, missing values
PriceFrames == SeqsUpTo(ValueRows, MaxSeriesLen)
FundFrames == SeqsUpTo(ValueRows, MaxSeriesLen)
PoolFrames == SeqsUpTo(PoolRows, MaxSeriesLen)

\* (pool["liquidity"] * 10**18).astype(int): the cast of a missing value raises
AsTypeIntRaises(pool) == \E k \in DOMAIN pool : ~pool[k].liquidity_ok

\* the rows of DataFrame.join for one left row: one per right row of the same
\* index, none when there is no such row (how="inner")
Matches(l, right) ==
    LET hit == SelectSeq(right, LAMBDA r : r.ts = l.ts)
    IN  [k \in 1..Len(hit) |-> [ts |-> l.ts, ok |-> l.ok /\ hit[k].ok]]

RECURSIVE InnerJoin(_, _)
InnerJoin(left, right) ==
    IF left = << >> THEN << >>
    ELSE Matches(Head(left), right) \o InnerJoin(Tail(left), right)

RECURSIVE InsertRow(_, _)
InsertRow(row, sorted) ==
    IF sorted = << >> THEN << row >>
    ELSE IF row.ts < Head(sorted).ts THEN << row >> \o sorted
    ELSE << Head(sorted) >> \o InsertRow(row, Tail(sorted))

\* sort_index(): rows in ascending order of the index, equal indexes all kept
RECURSIVE SortIndex(_)
SortIndex(rows) ==
    IF rows = << >> THEN << >>
    ELSE InsertRow(rows[Len(rows)], SortIndex(SubSeq(rows, 1, Len(rows) - 1)))

\* dropna(): the rows with every column set
DropNa(rows) == SelectSeq(rows, LAMBDA r : r.ok)

\* one Observation per row of the joined frame, with the row's index as timestamp
ObservationsOf(df) == [k \in 1..Len(df) |-> df[k].ts]

\* the result of build_observations for the three frames
build_observations(price, fund, pool) ==
    IF AsTypeIntRaises(pool)
    THEN [price |-> price, fund |-> fund, pool |-> pool, out |-> << >>,
          status |-> "error"]
    ELSE LET df == DropNa(SortIndex(InnerJoin(InnerJoin(price, fund), pool)))
         IN  [price |-> price, fund |-> fund, pool |-> pool,
              out |-> ObservationsOf(df), status |-> "built"]

\* before build_observations is called
NotBuilt ==
    [price |-> << >>, fund |-> << >>, pool |-> << >>, out |-> << >>,
     status |-> "idle"]

VARIABLES
    did_boot,           \* self._did_boot
    price_on_boot,      \* self._price_on_boot
    params,             \* self._params
    lp_global_state,    \* LP entity: global_state (None or a price)
    lp_internal_state,  \* LP entity: internal_state (None or token1_amount)
    hedge,              \* HEDGE entity: size and balance
    actions,            \* the list the last call of predict returned
    raised,             \* the ValueError the last call of predict raised, if any
    pc,                 \* position of the run loop
    steps,              \* snapshots delivered so far
    was_booted,         \* history: _did_boot on entry of the last call of predict
    branch,             \* history: the return point of the last call of predict
    sentinel,           \* history: the last call logged the liquidation sentinel
    boot_count,         \* history: calls of predict that emitted the boot sequence
    first_valid,        \* history: price of the first valid snapshot predict saw
    noop,               \* history: the last call returned nothing to execute
    repeats,            \* history: consecutive calls of predict at an unchanged state
    twin,               \* a second engine run side by side, with a higher threshold
    observations        \* build_observations: the three source series and its result

vars ==
    << did_boot, price_on_boot, params, lp_global_state, lp_internal_state, hedge,
       actions, raised, pc, steps, was_booted, branch, sentinel, boot_count,
       first_valid, noop, repeats, twin, observations >>

\* the second engine before its run, and the counts of snapshots at which each
\* engine emitted a rebalance instruction
TwinIdle(T) ==
    [threshold |-> T, did_boot |-> FALSE, price_on_boot |-> NoneP,
     hedge |-> [size |-> Zero, balance |-> Zero], actions |-> << >>,
     halted |-> FALSE, count_low |-> 0, count_high |-> 0, diverged |-> FALSE]

NoError == [flag |-> FALSE, needed |-> Zero, available |-> Zero]

GlobalNone == [is_none |-> TRUE, price |-> NoneP]

InternalNone == [is_none |-> TRUE, token1_amount |-> Zero]

GlobalStates == {GlobalNone} \cup {[is_none |-> FALSE, price |-> p] : p \in Prices}

InternalStates ==
    {InternalNone} \cup {[is_none |-> FALSE, token1_amount |-> a] : a \in LPAmounts}

\* what happens to the hedge account between two snapshots: nothing, a liquidation,
\* or funding and mark-to-market moving the balance
HedgeEvents(h) ==
    {h, [size |-> Zero, balance |-> Zero]} \cup {[h EXCEPT !.balance = b] : b \in Balances}

Init ==
    /\ did_boot = FALSE
    /\ price_on_boot = NoneP
    /\ params \in ParamSets
    /\ lp_global_state = GlobalNone
    /\ lp_internal_state = InternalNone
    /\ hedge = [size |-> Zero, balance |-> Zero]
    /\ actions = << >>
    /\ raised = NoError
    /\ pc = "observe"
    /\ steps = 0
    /\ was_booted = FALSE
    /\ branch = "none"
    /\ sentinel = FALSE
    /\ boot_count = 0
    /\ first_valid = NoneP
    /\ noop = FALSE
    /\ repeats = 0
    /\ twin = TwinIdle(Zero)
    /\ observations = NotBuilt

\* a price that is present, a number and strictly positive
PriceOK(p) == p.kind = "num" /\ p.val.n > 0

\* the LP entity holds both states and the snapshot's price is valid
ValidSnapshot ==
    /\ ~lp_global_state.is_none
    /\ ~lp_internal_state.is_none
    /\ PriceOK(lp_global_state.price)

\* the list holds the capital deployment of the boot (an instruction for the LP)
EmitsBoot(acts) == \E k \in DOMAIN acts : acts[k].entity = "LP"

(***************************************************************************)
(* The run loop: deliver a snapshot, call predict, execute what it returned *)
(***************************************************************************)
Observe ==
    /\ pc = "observe"
    /\ steps < MaxSnapshots
    /\ \E g \in GlobalStates, i \in InternalStates, h \in HedgeEvents(hedge) :
          /\ lp_global_state' = g
          /\ lp_internal_state' = i
          /\ hedge' = h
          /\ repeats' = IF noop /\ g = lp_global_state /\ i = lp_internal_state /\ h = hedge
                        THEN repeats + 1 ELSE 0
    /\ steps' = steps + 1
    /\ pc' = "predict"
    /\ UNCHANGED << did_boot, price_on_boot, params, actions, raised, was_booted,
                    branch, sentinel, boot_count, first_valid, noop, twin,
                    observations >>

Predict ==
    /\ pc = "predict"
    /\ LET r == predict([did_boot |-> did_boot, price_on_boot |-> price_on_boot],
                        params, lp_global_state, lp_internal_state, hedge)
       IN  /\ did_boot' = r.did_boot
           /\ price_on_boot' = r.price_on_boot
           /\ actions' = r.actions
           /\ raised' = [flag |-> r.raised, needed |-> r.needed, available |-> r.available]
           /\ pc' = IF r.raised THEN "halted" ELSE "execute"
           /\ branch' = r.branch
           /\ sentinel' = r.sentinel
           /\ boot_count' = IF EmitsBoot(r.actions) THEN boot_count + 1 ELSE boot_count
           /\ noop' = (r.actions = << >> /\ ~r.raised)
    /\ was_booted' = did_boot
    /\ first_valid' =
          IF first_valid = NoneP /\ ValidSnapshot
          THEN lp_global_state.price ELSE first_valid
    /\ UNCHANGED << params, lp_global_state, lp_internal_state, hedge, steps, repeats,
                    twin,
                    observations >>

\* the executor applies one instruction to the hedge account; what an LP
\* instruction does to the pool position shows in the next snapshot's LP state
Apply(h, ins) ==
    IF ins.entity = "HEDGE"
    THEN IF ins.action = "deposit"
         THEN [h EXCEPT !.balance = RAdd(@, ins.amount)]
         ELSE [h EXCEPT !.size = RAdd(@, ins.amount)]
    ELSE h

RECURSIVE ApplyAll(_, _)
ApplyAll(h, acts) ==
    IF acts = << >> THEN h ELSE ApplyAll(Apply(h, Head(acts)), Tail(acts))

Execute ==
    /\ pc = "execute"
    /\ hedge' = ApplyAll(hedge, actions)
    /\ actions' = << >>
    /\ branch' = "none"
    /\ sentinel' = FALSE
    /\ was_booted' = did_boot
    /\ pc' = "observe"
    /\ UNCHANGED << did_boot, price_on_boot, params, lp_global_state, lp_internal_state,
                    raised, steps, boot_count, first_valid, noop, repeats, twin,
                    observations >>

Next == Observe \/ Predict \/ Execute

Spec == Init /\ [][Next]_vars

(***************************************************************************)
(* A single call of predict by a booted engine on an arbitrary price, LP    *)
(* amount, hedge size, hedge balance and threshold, and the execution of   *)
(* its result                                                              *)
(***************************************************************************)
InitCall ==
    /\ did_boot = TRUE
    /\ price_on_boot \in CallPrices
    /\ params \in [INITIAL_NOTIONAL : {R(1000000, 1)}, HL_LEVERAGE : Leverages,
                   REBALANCE_THRESHOLD_PCT : CallThresholds]
    /\ lp_global_state \in {[is_none |-> FALSE, price |-> p] : p \in CallPrices}
    /\ lp_internal_state \in
          {[is_none |-> FALSE, token1_amount |-> a] : a \in CallAmounts}
    /\ hedge \in [size : CallSizes, balance : CallBalances]
    /\ actions = << >>
    /\ raised = NoError
    /\ pc = "predict"
    /\ steps = 1
    /\ was_booted = did_boot
    /\ branch = "none"
    /\ sentinel = FALSE
    /\ boot_count = 1
    /\ first_valid = price_on_boot
    /\ noop = FALSE
    /\ repeats = 0
    /\ twin = TwinIdle(Zero)
    /\ observations = NotBuilt

NextCall == Predict \/ Execute

SpecCall == InitCall /\ [][NextCall]_vars

(***************************************************************************)
(* The observation builder alone: one call of build_observations on any    *)
(* three frames the loaders can return.                                    *)
(***************************************************************************)
BuildObservations ==
    /\ observations.status = "idle"
    /\ \E price \in PriceFrames, fund \in FundFrames, pool \in PoolFrames :
           observations' = build_observations(price, fund, pool)
    /\ UNCHANGED << did_boot, price_on_boot, params, lp_global_state, lp_internal_state,
                    hedge, actions, raised, pc, steps, was_booted, branch, sentinel,
                    boot_count, first_valid, noop, repeats, twin >>

NextObs == BuildObservations

SpecObs == Init /\ [][NextObs]_vars

(***************************************************************************)
(* Two engines side by side on the same snapshots and the same LP amounts, *)
(* the first with the lower threshold, each with its own hedge account     *)
(***************************************************************************)
InitPair ==
    /\ did_boot = FALSE
    /\ price_on_boot = NoneP
    /\ params \in [INITIAL_NOTIONAL : {R(1000000, 1)}, HL_LEVERAGE : {R(1, 1)},
                   REBALANCE_THRESHOLD_PCT : PairThresholds]
    /\ lp_global_state = GlobalNone
    /\ lp_internal_state = InternalNone
    /\ hedge = [size |-> Zero, balance |-> Zero]
    /\ actions = << >>
    /\ raised = NoError
    /\ pc = "observe"
    /\ steps = 0
    /\ was_booted = FALSE
    /\ branch = "none"
    /\ sentinel = FALSE
    /\ boot_count = 0
    /\ first_valid = NoneP
    /\ noop = FALSE
    /\ repeats = 0
    /\ \E T \in PairThresholds :
          /\ RLt(params.REBALANCE_THRESHOLD_PCT, T)
          /\ twin = TwinIdle(T)
          /\ observations = NotBuilt

PairObserve ==
    /\ pc = "observe"
    /\ steps < MaxPairSnapshots
    /\ \E p \in PairPrices, a \in PairAmounts :
          /\ lp_global_state' = [is_none |-> FALSE, price |-> p]
          /\ lp_internal_state' = [is_none |-> FALSE, token1_amount |-> a]
    /\ steps' = steps + 1
    /\ pc' = "predict"
    /\ UNCHANGED << did_boot, price_on_boot, params, hedge, actions, raised, was_booted,
                    branch, sentinel, boot_count, first_valid, noop, repeats, twin,
                    observations >>

\* the list is a rebalance: something is emitted and it is not the boot
EmitsRebalance(acts) == acts # << >> /\ ~EmitsBoot(acts)

PairPredict ==
    /\ pc = "predict"
    /\ LET r == predict([did_boot |-> did_boot, price_on_boot |-> price_on_boot],
                        params, lp_global_state, lp_internal_state, hedge)
           t == predict([did_boot |-> twin.did_boot, price_on_boot |-> twin.price_on_boot],
                        [params EXCEPT !.REBALANCE_THRESHOLD_PCT = twin.threshold],
                        lp_global_state, lp_internal_state, twin.hedge)
           ra == IF raised.flag THEN Raise([did_boot |-> did_boot,
                                            price_on_boot |-> price_on_boot],
                                           raised.needed, raised.available)
                 ELSE r
       IN  /\ did_boot' = ra.did_boot
           /\ price_on_boot' = ra.price_on_boot
           /\ actions' = ra.actions
           /\ raised' = [flag |-> ra.raised, needed |-> ra.needed,
                         available |-> ra.available]
           /\ branch' = ra.branch
           /\ sentinel' = ra.sentinel
           /\ boot_count' = IF EmitsBoot(ra.actions) THEN boot_count + 1 ELSE boot_count
           /\ noop' = (ra.actions = << >> /\ ~ra.raised)
           /\ twin' = IF twin.halted
                       THEN [twin EXCEPT !.actions = << >>,
                               !.count_low = IF EmitsRebalance(ra.actions) THEN @ + 1 ELSE @,
                               !.diverged = @ \/ hedge # twin.hedge]
                       ELSE [twin EXCEPT !.did_boot = t.did_boot,
                               !.price_on_boot = t.price_on_boot,
                               !.actions = t.actions,
                               !.halted = t.raised,
                               !.count_low = IF EmitsRebalance(ra.actions) THEN @ + 1 ELSE @,
                               !.count_high = IF EmitsRebalance(t.actions) THEN @ + 1 ELSE @,
                               !.diverged = @ \/ hedge # twin.hedge]
    /\ pc' = "execute"
    /\ was_booted' = did_boot
    /\ first_valid' =
          IF first_valid = NoneP /\ ValidSnapshot
          THEN lp_global_state.price ELSE first_valid
    /\ UNCHANGED << params, lp_global_state, lp_internal_state, hedge, steps, repeats,
                    observations >>

PairExecute ==
    /\ pc = "execute"
    /\ hedge' = ApplyAll(hedge, actions)
    /\ twin' = [twin EXCEPT !.hedge = ApplyAll(@, twin.actions), !.actions = << >>]
    /\ actions' = << >>
    /\ branch' = "none"
    /\ sentinel' = FALSE
    /\ was_booted' = did_boot
    /\ pc' = "observe"
    /\ UNCHANGED << did_boot, price_on_boot, params, lp_global_state, lp_internal_state,
                    raised, steps, boot_count, first_valid, noop, repeats,
                    observations >>

NextPair == PairObserve \/ PairPredict \/ PairExecute

SpecPair == InitPair /\ [][NextPair]_vars


(***************************************************************************)
(* Properties                                                              *)
(***************************************************************************)
\* predict has just returned or raised
PostPredict == pc \in {"execute", "halted"}

Kinds(acts) == [k \in DOMAIN acts |-> << acts[k].entity, acts[k].action, acts[k].arg >>]

BootKinds ==
    << << "LP", "deposit", "amount_in_notional" >>,
       << "LP", "open_position", "amount_in_notional" >>,
       << "HEDGE", "deposit", "amount_in_notional" >>,
       << "HEDGE", "open_position", "amount_in_product" >> >>

\* C1: while the engine awaits boot no call of predict emits a resizing
\* instruction: a call made before boot either returns the empty list and leaves
\* the engine unbooted, or it is the boot call and returns exactly the four boot
\* instructions; it never raises.
C1_NoResizeBeforeBoot ==
    (PostPredict /\ ~was_booted) =>
        /\ ~raised.flag
        /\ \/ (actions = << >> /\ ~did_boot)
           \/ (did_boot /\ Kinds(actions) = BootKinds)

\* an unbooted engine was called with a valid price missing while the LP holds
\* 200 units against no short, and returned nothing
C1_Witness ==
    /\ pc = "execute" /\ ~was_booted /\ ~did_boot /\ actions = << >>
    /\ ~lp_global_state.is_none /\ ~lp_internal_state.is_none
    /\ lp_internal_state.token1_amount = R(200, 1)
    /\ hedge.size = Zero

\* C2: across a run the boot sequence is emitted at most once, and exactly once
\* as soon as predict has processed a snapshot with a valid price, however many
\* valid snapshots follow.
C2_BootExactlyOnce ==
    /\ boot_count <= 1
    /\ (first_valid # NoneP) => boot_count = 1
    /\ (first_valid = NoneP) => boot_count = 0

\* a later snapshot with a valid price was processed after the boot
C2_Witness ==
    /\ pc = "execute" /\ was_booted /\ ValidSnapshot /\ boot_count = 1 /\ steps = MaxSnapshots

\* C3: the boot call returns exactly four instructions in the order LP deposit,
\* LP open_position, HEDGE deposit, HEDGE open_position; the two LP instructions
\* carry the same notional and the HEDGE open_position amount is strictly negative.
C3_BootSequenceOrder ==
    (PostPredict /\ ~was_booted /\ did_boot) =>
        /\ Len(actions) = 4
        /\ Kinds(actions) = BootKinds
        /\ actions[1].amount = actions[2].amount
        /\ actions[4].amount.n < 0

C3_Witness ==
    /\ pc = "execute" /\ ~was_booted /\ did_boot /\ Len(actions) = 4

\* C4: at boot with price p, notional N and leverage L the LP deposit X and the
\* margin deposit M satisfy X * (1 + 1/(2L)) = N, M * L = X/2 and X + M = N, and
\* the short size s satisfies |s| * p = X/2; for N = 1,000,000, L = 1, p = 2000
\* this is X = 2N/3, M = N/3 and s = -(N/3)/2000.
C4_BootCapitalSplit ==
    (PostPredict /\ ~was_booted /\ did_boot) =>
        LET N == params.INITIAL_NOTIONAL
            L == params.HL_LEVERAGE
            p == lp_global_state.price.val
            X == actions[1].amount
            M == actions[3].amount
            s == actions[4].amount
        IN  /\ RAdd(X, M) = N
            /\ RMul(RAbs(s), p) = RDiv(X, R(2, 1))
            /\ RMul(M, L) = RDiv(X, R(2, 1))
            /\ RAdd(X, RDiv(X, RMul(R(2, 1), L))) = N
            /\ (N = R(1000000, 1) /\ L = R(1, 1) /\ p = R(2000, 1)) =>
                  /\ X = R(2000000, 3)
                  /\ M = R(1000000, 3)
                  /\ s = R(-500, 3)

\* the boot of the example, at leverage other than 1 as well
C4_Witness ==
    /\ pc = "execute" /\ ~was_booted /\ did_boot
    /\ params.INITIAL_NOTIONAL = R(1000000, 1)
    /\ params.HL_LEVERAGE = R(2, 1)
    /\ lp_global_state.price = Num(R(2000, 1))
    /\ actions[1].amount = R(800000, 1)

\* C5: while awaiting boot, a snapshot whose price is missing, non-positive or
\* NaN makes predict return nothing and leaves the engine unbooted with no boot
\* price; the engine boots at exactly the first snapshot with a valid price, and
\* the boot price it records is that snapshot's price.
C5_BootAtFirstValidPrice ==
    /\ (/\ PostPredict /\ ~was_booted
        /\ ~lp_global_state.is_none /\ ~lp_internal_state.is_none
        /\ ~PriceOK(lp_global_state.price)) =>
            (actions = << >> /\ ~raised.flag /\ ~did_boot /\ price_on_boot = NoneP)
    /\ did_boot <=> (first_valid # NoneP)
    /\ price_on_boot = first_valid
    /\ (PostPredict /\ ~was_booted /\ ValidSnapshot) =>
            (did_boot /\ price_on_boot = lp_global_state.price)

\* the boot happened at the third snapshot, after two invalid ones
C5_Witness ==
    /\ pc = "execute" /\ ~was_booted /\ did_boot /\ steps = MaxSnapshots
    /\ price_on_boot = Num(R(1600, 1))

\* the LP entity holds both states
Initialized == ~lp_global_state.is_none /\ ~lp_internal_state.is_none

\* the LP volatile-asset amount is above the floor of 1e-9
AboveFloor == RGt(lp_internal_state.token1_amount, R(1, 1000000000))

\* |a - |size|| <= threshold * a, for the current LP amount and hedge size
WithinBand ==
    RLe(RAbs(RSub(lp_internal_state.token1_amount, RAbs(hedge.size))),
        RMul(params.REBALANCE_THRESHOLD_PCT, lp_internal_state.token1_amount))

\* -(LP amount) - (signed hedge size)
Adjustment == RSub(RNeg(lp_internal_state.token1_amount), hedge.size)

\* |adjustment| * price
AdjustmentNotional == RMul(RAbs(Adjustment), lp_global_state.price.val)

\* C6: in the ACTIVE state a snapshot whose price is missing, non-positive or NaN
\* makes predict return the empty list without raising, whatever the LP amount,
\* the hedge size and the hedge balance are, and leaves the boot flag and the
\* boot price as they were.
C6_ActiveInvalidPriceSkips ==
    [][(pc = "predict" /\ did_boot /\ Initialized /\ ~PriceOK(lp_global_state.price)) =>
          /\ actions' = << >>
          /\ ~raised'.flag
          /\ pc' = "execute"
          /\ did_boot' = did_boot
          /\ price_on_boot' = price_on_boot]_vars

\* an ACTIVE engine skipped a snapshot with a negative price while the hedge was
\* liquidated (no balance, no short) and the LP held 200 units
C6_Witness ==
    /\ pc = "execute" /\ was_booted /\ Initialized
    /\ lp_global_state.price = Num(R(-1, 1))
    /\ lp_internal_state.token1_amount = R(200, 1)
    /\ hedge = [size |-> Zero, balance |-> Zero]
    /\ actions = << >>

\* C7: in the ACTIVE state with LP amount a > 1e-9 and |a - |size|| / a not above
\* the threshold, predict emits nothing and raises nothing and changes neither the
\* engine's state nor the position states, so that calling it again at the
\* unchanged state gives the empty list again.
C7_WithinBandIdempotent ==
    /\ [][(pc = "predict" /\ did_boot /\ ~lp_internal_state.is_none
              /\ AboveFloor /\ WithinBand) =>
            /\ actions' = << >>
            /\ ~raised'.flag
            /\ did_boot' = did_boot
            /\ price_on_boot' = price_on_boot
            /\ hedge' = hedge
            /\ lp_internal_state' = lp_internal_state
            /\ lp_global_state' = lp_global_state]_vars
    /\ []((PostPredict /\ was_booted /\ ~lp_internal_state.is_none /\ AboveFloor
              /\ WithinBand /\ repeats >= 1) =>
            (actions = << >> /\ ~raised.flag))

\* predict was called a second time at the unchanged state, the short being
\* within the band of the LP amount without being equal to it
C7_Witness ==
    /\ pc = "execute" /\ was_booted /\ ValidSnapshot /\ AboveFloor /\ WithinBand
    /\ Adjustment # Zero
    /\ RLe(R(1, 100), AdjustmentNotional)
    /\ repeats >= 1
    /\ actions = << >>

\* C8: in the ACTIVE state a call of predict that emits anything emits a single
\* ('HEDGE', open_position) whose signed amount is -(LP amount) - (signed hedge
\* size), so that the hedge size is exactly -(LP amount) once the executor has
\* added the amount to it; with LP amount 200 and short -150 the amount is -50.
C8_RebalanceTargetsLpAmount ==
    (PostPredict /\ was_booted /\ actions # << >>) =>
        /\ Len(actions) = 1
        /\ Kinds(actions) = << << "HEDGE", "open_position", "amount_in_product" >> >>
        /\ actions[1].amount = Adjustment
        /\ ApplyAll(hedge, actions).size = RNeg(lp_internal_state.token1_amount)
        /\ (lp_internal_state.token1_amount = R(200, 1) /\ hedge.size = R(-150, 1)) =>
              actions[1].amount = R(-50, 1)

\* scenario B: LP amount 200, short -150, threshold 0.10
C8_Witness ==
    /\ pc = "execute" /\ was_booted /\ Len(actions) = 1
    /\ lp_internal_state.token1_amount = R(200, 1)
    /\ hedge.size = R(-150, 1)
    /\ params.REBALANCE_THRESHOLD_PCT = R(1, 10)

\* the margin an increase of the short by the adjustment needs
RequiredMargin == RDiv(AdjustmentNotional, params.HL_LEVERAGE)

\* C9: in the ACTIVE state, when the rebalance is triggered, the adjustment is
\* negative and not dust, and |adjustment| * price / HL_LEVERAGE is strictly
\* above the hedge balance, predict raises the error carrying the needed and the
\* available margin and emits nothing, and the run halts: no step follows.
C9_InsufficientMarginHalts ==
    /\ []((/\ PostPredict /\ was_booted /\ ValidSnapshot /\ AboveFloor /\ ~WithinBand
           /\ Adjustment.n < 0
           /\ RLe(R(1, 100), AdjustmentNotional)
           /\ RGt(RequiredMargin, hedge.balance)) =>
            /\ raised.flag
            /\ raised.needed = RequiredMargin
            /\ raised.available = hedge.balance
            /\ actions = << >>
            /\ pc = "halted")
    /\ [][pc # "halted" /\ ~raised.flag]_vars

\* the raise at leverage 2 with a balance that covers some but not all of the need
C9_Witness ==
    /\ pc = "halted" /\ raised.flag /\ was_booted
    /\ params.HL_LEVERAGE = R(2, 1)
    /\ hedge.balance # Zero
    /\ RGt(raised.needed, raised.available)

\* C10 as stated: over a run of two engines on the same snapshots and LP
\* amounts, the engine with the lower threshold has emitted a rebalance
\* instruction at no fewer snapshots than the engine with the higher threshold.
C10_CountMonotone == twin.count_low >= twin.count_high

\* C10 as amended: at a snapshot that both engines enter with the same hedge size
\* and balance, the engine with the higher threshold emits a rebalance instruction
\* only if the engine with the lower threshold emits the same instruction; and as
\* long as the two hedge accounts have not differed at any snapshot, the lower
\* threshold has rebalanced at no fewer snapshots than the higher one.
C10_PointwiseMonotone ==
    /\ (/\ pc = "execute" /\ hedge = twin.hedge /\ ~raised.flag /\ ~twin.halted
        /\ EmitsRebalance(twin.actions)) => actions = twin.actions
    /\ ~twin.diverged => twin.count_low >= twin.count_high

\* both engines rebalance at the same snapshot from the same hedge account
C10_Witness ==
    /\ pc = "execute" /\ hedge = twin.hedge /\ ~twin.diverged
    /\ EmitsRebalance(twin.actions) /\ actions = twin.actions
    /\ twin.count_high = 1 /\ twin.count_low = 1

\* the single instruction of a rebalance by the adjustment
RebalanceInstr == << Instr("HEDGE", "open_position", "amount_in_product", Adjustment) >>

\* the outcome the rebalance rules (steps 2 to 9 of the ACTIVE state) give for
\* the current price, LP amount, hedge size and hedge balance
RebalanceOutcome ==
    IF ~PriceOK(lp_global_state.price) THEN actions = << >> /\ ~raised.flag
    ELSE IF ~AboveFloor THEN actions = << >> /\ ~raised.flag
    ELSE IF WithinBand THEN actions = << >> /\ ~raised.flag
    ELSE IF RLt(AdjustmentNotional, R(1, 100)) THEN actions = << >> /\ ~raised.flag
    ELSE IF Adjustment.n < 0 /\ RGt(RequiredMargin, hedge.balance)
         THEN /\ raised = [flag |-> TRUE, needed |-> RequiredMargin,
                           available |-> hedge.balance]
              /\ actions = << >>
    ELSE actions = RebalanceInstr /\ ~raised.flag

\* C11: the liquidation sentinel only observes: for every input of an ACTIVE
\* engine the outcome of predict (the list, or the margin error) is the one the
\* rebalance rules alone give, the boot flag and boot price stay as they were,
\* and the sentinel is logged exactly when the hedge balance is 0 while the LP
\* amount is positive.
C11_SentinelObservesOnly ==
    (PostPredict /\ was_booted /\ Initialized) =>
        /\ RebalanceOutcome
        /\ did_boot /\ price_on_boot = first_valid
        /\ sentinel <=> (hedge.balance = Zero /\ lp_internal_state.token1_amount.n > 0)

\* scenario D: balance 0 and LP amount 50; the sentinel is logged and the
\* reduction of the short is emitted all the same
C11_Witness ==
    /\ pc = "execute" /\ was_booted /\ sentinel
    /\ hedge.balance = Zero
    /\ lp_internal_state.token1_amount = R(50, 1)
    /\ Len(actions) = 1

\* C13: with no snapshot delivered nothing is emitted and nothing raised; and a
\* call of predict that finds the LP entity's global or internal state missing
\* returns the empty list, raises nothing and leaves the boot flag and the boot
\* price as they were, before and after boot.
C13_UninitializedSkips ==
    /\ [](steps = 0 => (actions = << >> /\ ~raised.flag /\ boot_count = 0))
    /\ [][(pc = "predict" /\ (lp_global_state.is_none \/ lp_internal_state.is_none)) =>
            /\ actions' = << >>
            /\ ~raised'.flag
            /\ pc' = "execute"
            /\ did_boot' = did_boot
            /\ price_on_boot' = price_on_boot]_vars

\* a booted engine was called with the internal state missing and a valid price
C13_Witness ==
    /\ pc = "execute" /\ was_booted /\ actions = << >>
    /\ lp_internal_state.is_none /\ ~lp_global_state.is_none
    /\ PriceOK(lp_global_state.price)

\* C14: in the ACTIVE state a triggered adjustment that is positive and not dust
\* is emitted as exactly one ('HEDGE', open_position) of that amount, without a
\* margin error, whatever the hedge balance is.
C14_DecreaseUnconditional ==
    (/\ PostPredict /\ was_booted /\ ValidSnapshot /\ AboveFloor /\ ~WithinBand
     /\ RLe(R(1, 100), AdjustmentNotional)
     /\ Adjustment.n > 0) =>
        (actions = RebalanceInstr /\ ~raised.flag /\ pc = "execute")

\* a reduction of the short emitted from an account with a negative balance
C14_Witness ==
    /\ pc = "execute" /\ was_booted /\ hedge.balance.n < 0
    /\ Len(actions) = 1 /\ actions[1].amount.n > 0

\* C15: in the ACTIVE state with a valid price, an LP amount at or below 1e-9, or
\* a triggered adjustment whose notional is below 0.01, makes predict return the
\* empty list and raise nothing, whatever the hedge balance and size are.
C15_TinyAndDustBeforeMargin ==
    (/\ PostPredict /\ was_booted /\ ValidSnapshot
     /\ \/ ~AboveFloor
        \/ (~WithinBand /\ RLt(AdjustmentNotional, R(1, 100)))) =>
        (actions = << >> /\ ~raised.flag /\ pc = "execute")

\* a dust increase of the short with no balance at all: the margin it would
\* need is above the balance, and nothing is raised
C15_Witness ==
    /\ pc = "execute" /\ was_booted /\ ValidSnapshot /\ AboveFloor /\ ~WithinBand
    /\ Adjustment.n < 0
    /\ RLt(AdjustmentNotional, R(1, 100))
    /\ hedge.balance = Zero
    /\ RGt(RequiredMargin, hedge.balance)
    /\ actions = << >>

\* C16: in the ACTIVE state the last branch of predict (adjustment exactly zero
\* after the threshold and dust checks) is never reached, for any LP amount above
\* 1e-9, hedge size, valid price and threshold; and an adjustment of exactly zero
\* emits nothing and raises nothing.
C16_ZeroBranchUnreachable ==
    /\ branch # "zero"
    /\ (/\ PostPredict /\ was_booted /\ ValidSnapshot /\ AboveFloor
        /\ Adjustment = Zero) => (actions = << >> /\ ~raised.flag)

\* an adjustment of zero that passes the threshold check (negative threshold)
C16_Witness ==
    /\ pc = "execute" /\ was_booted /\ ValidSnapshot /\ AboveFloor
    /\ Adjustment = Zero
    /\ params.REBALANCE_THRESHOLD_PCT.n < 0
    /\ branch = "dust"

\* C17: the boot flag and the boot price change only in the boot transition:
\* once set the flag stays set and the boot price stays what it is, a step that
\* changes either is the call of predict that boots (unbooted, valid price, the
\* boot sequence returned), and no call of predict changes the LP or hedge state.
C17_EngineStateFrame ==
    [][/\ did_boot => (did_boot' /\ price_on_boot' = price_on_boot)
       /\ (pc = "predict") =>
             /\ hedge' = hedge
             /\ lp_internal_state' = lp_internal_state
             /\ lp_global_state' = lp_global_state
       /\ (did_boot' # did_boot \/ price_on_boot' # price_on_boot) =>
             /\ pc = "predict" /\ ~did_boot /\ ValidSnapshot
             /\ did_boot'
             /\ price_on_boot' = lp_global_state.price
             /\ EmitsBoot(actions')]_vars

\* a rebalance emitted after boot at a price other than the boot price
C17_Witness ==
    /\ pc = "execute" /\ was_booted /\ ValidSnapshot /\ Len(actions) = 1
    /\ price_on_boot # lp_global_state.price

\* C18: with the hedge liquidated (balance 0, size 0), an ACTIVE engine called
\* with LP amount a > 1e-9, a valid price p with a * p >= 0.01 and a threshold
\* below 1 raises the margin error for a * p / HL_LEVERAGE against 0, emits
\* nothing, and the run halts there.
C18_NoReopenAfterLiquidation ==
    (/\ PostPredict /\ was_booted /\ ValidSnapshot /\ AboveFloor
     /\ hedge = [size |-> Zero, balance |-> Zero]
     /\ RLe(R(1, 100), RMul(lp_internal_state.token1_amount, lp_global_state.price.val))
     /\ RLt(params.REBALANCE_THRESHOLD_PCT, R(1, 1))) =>
        /\ raised = [flag |-> TRUE,
                     needed |-> RDiv(RMul(lp_internal_state.token1_amount,
                                          lp_global_state.price.val),
                                     params.HL_LEVERAGE),
                     available |-> Zero]
        /\ actions = << >>
        /\ pc = "halted"

C18_Witness ==
    /\ pc = "halted" /\ was_booted /\ sentinel
    /\ hedge = [size |-> Zero, balance |-> Zero]
    /\ lp_internal_state.token1_amount = R(200, 1)

\* C19: a call of predict after the boot call emits at most one instruction, and
\* it is ('HEDGE', open_position) with a non-zero amount of notional at least
\* 0.01: no deposit and nothing for 'LP' is emitted after boot.
C19_PostBootSingleHedgeOpen ==
    (PostPredict /\ was_booted) =>
        /\ Len(actions) <= 1
        /\ \A k \in DOMAIN actions :
              /\ actions[k].entity = "HEDGE"
              /\ actions[k].action = "open_position"
              /\ actions[k].amount # Zero
              /\ RLe(R(1, 100), RMul(RAbs(actions[k].amount), lp_global_state.price.val))

\* a reduction of the short emitted after boot
C19_Witness ==
    /\ pc = "execute" /\ was_booted /\ boot_count = 1
    /\ Len(actions) = 1 /\ actions[1].amount.n > 0

\* the short as it is once the executor has applied the emitted list
ShortAfter == RAbs(ApplyAll(hedge, actions).size)

\* C20: when predict emits an increase of the short, the margin of
\* the whole resulting short, |size| * price / HL_LEVERAGE, does not exceed the
\* hedge balance the check compared against.
C20_WholeShortCovered ==
    (pc = "execute" /\ was_booted /\ actions # << >> /\ actions[1].amount.n < 0) =>
        RLe(RDiv(RMul(ShortAfter, lp_global_state.price.val), params.HL_LEVERAGE),
            hedge.balance)

\* an increase emitted although the whole short then needs more than the balance
C20_Witness ==
    /\ pc = "execute" /\ was_booted /\ actions # << >> /\ actions[1].amount.n < 0
    /\ RGt(RDiv(RMul(ShortAfter, lp_global_state.price.val), params.HL_LEVERAGE),
           hedge.balance)

\* a timestamp with a row in each of the three frames whose values are all set
Complete(t) ==
    /\ \E k \in DOMAIN observations.price :
          observations.price[k].ts = t /\ observations.price[k].ok
    /\ \E k \in DOMAIN observations.fund :
          observations.fund[k].ts = t /\ observations.fund[k].ok
    /\ \E k \in DOMAIN observations.pool :
          /\ observations.pool[k].ts = t
          /\ observations.pool[k].ok /\ observations.pool[k].liquidity_ok

\* the number of snapshots emitted with timestamp t
Emitted(t) == Cardinality({k \in DOMAIN observations.out : observations.out[k] = t})

\* C12: once build_observations has ended, a timestamp has exactly one snapshot
\* if it is present with all values set in the price, funding and pool frames
\* and none otherwise, and the snapshots are in strictly increasing order of
\* timestamp, for frames in any order, empty, or with repeated timestamps.
C12_OneSnapshotPerCompleteTimestamp ==
    (observations.status # "idle") =>
        /\ \A t \in Timestamps : Emitted(t) = IF Complete(t) THEN 1 ELSE 0
        /\ \A k \in 1..(Len(observations.out) - 1) :
              observations.out[k] < observations.out[k + 1]

\* two snapshots emitted with the same timestamp
C12_Witness ==
    /\ observations.status = "built"
    /\ \E j, k \in DOMAIN observations.out :
          j < k /\ observations.out[j] = observations.out[k]

=============================================================================
